---- MODULE Spec2Model ----
(***************************************************************************)
(* sound-syncer: a model of src/src/main.rs.                               *)
(*                                                                         *)
(* One process (main) syncs the playlists and then the podcast sets of a   *)
(* configuration.  sync_podcasts scans the output subdirectory once, then  *)
(* for each podcast fetches the feed and, for the first keep_latest items, *)
(* validates, classifies by (file name, mtime second) and, when needed,    *)
(* runs curl, ffmpeg and set_file_mtime.  Every `?` in the code returns    *)
(* the error to main, whose own `?` ends the process.                      *)
(*                                                                         *)
(* The steps of the model are the stretches of code between two awaits on  *)
(* an external process or on the network; the process can be terminated    *)
(* from outside between any two of them, and started again later.          *)
(***************************************************************************)
EXTENDS Integers, Sequences, FiniteSets, TLC

\* ------------------------------------------------------------------ bounds
\* Publication times are the seconds 1..MaxTime.
MaxTime == 2
\* The keep_latest of the podcasts of the configuration add up to at most
\* MaxEpisodes: a run looks at no more than MaxEpisodes items.
MaxEpisodes == 2

\* ----------------------------------------------------------------- strings
\* A string is a sequence of characters; a character is a one-letter string.
Digits == {"0", "1", "2", "3", "4", "5", "6", "7", "8", "9"}
Lower == {"a", "b", "c", "d", "e", "f", "g", "h", "i", "j", "k", "l", "m",
          "n", "o", "p", "q", "r", "s", "t", "u", "v", "w", "x", "y", "z"}
Upper == {"A", "B", "C", "D", "E", "F", "G", "H", "I", "J", "K", "L", "M",
          "N", "O", "P", "Q", "R", "S", "T", "U", "V", "W", "X", "Y", "Z"}

\* main.rs:84, the match arm that keeps a character.
Kept == Digits \cup Lower \cup Upper \cup {" ", "-", "_", "."}
KeepsChar(c) == c \in Kept

\* A sanitizer that drops only the first character it does not keep.
sanitize_first_only(f) ==
    LET bad == { i \in 1..Len(f) : ~KeepsChar(f[i]) }
    IN  IF bad = {} THEN f
        ELSE LET m == CHOOSE i \in bad : \A j \in bad : i <= j
             IN  SubSeq(f, 1, m - 1) \o SubSeq(f, m + 1, Len(f))
\* main.rs:81-88
fat32_sanitize(f) == SelectSeq(f, KeepsChar)

\* A file name that takes the title as it is.
podcast_file_name_raw_title(podcast, title) ==
    fat32_sanitize(podcast) \o <<" ", "-", " ">> \o title
        \o <<".", "m", "p", "3">>
\* main.rs:90-96, format!("{} - {}.mp3", ..)
podcast_file_name(podcast, title) ==
    fat32_sanitize(podcast) \o <<" ", "-", " ">> \o fat32_sanitize(title)
        \o <<".", "m", "p", "3">>

\* ------------------------------------------------------------------ values
\* Option<T>: None, or Some(x).
None == <<>>
Some(x) == <<x>>
IsSome(o) == o # None
Unwrap(o) == o[1]

Min(a, b) == IF a <= b THEN a ELSE b

\* A pub_date string: either text that DateTime::parse_from_rfc2822 rejects, or
\* an RFC 2822 date, which names a whole second.
GarbageDate == [rfc2822 |-> FALSE, timestamp |-> 0]
Rfc2822Date(t) == [rfc2822 |-> TRUE, timestamp |-> t]

\* rss::Item, the three fields main.rs reads (lines 151-168).
Titles == {<<"a">>, <<"b", "?">>}
ValidItems ==
    { [title |-> Some(t), pub_date |-> Some(Rfc2822Date(ts)), enclosure |-> Some("e")] :
        t \in Titles, ts \in 1..MaxTime }
BaseItem == [title |-> Some(<<"a">>), pub_date |-> Some(Rfc2822Date(1)), enclosure |-> Some("e")]
InvalidItems ==
    { [BaseItem EXCEPT !.title = None],
      [BaseItem EXCEPT !.pub_date = None],
      [BaseItem EXCEPT !.pub_date = Some(GarbageDate)],
      [BaseItem EXCEPT !.enclosure = None] }
Items == ValidItems \cup InvalidItems

\* A feed document holds up to MaxFeedLen items.
MaxFeedLen == MaxEpisodes
\* The feed document of a server: channel.items.  An item is fixed when it is
\* first read (Some(item)); what nobody has read yet is None.
UnreadFeed(n) == [i \in 1..n |-> None]

\* main.rs:15-39, the configuration document read at lines 227-230.  The
\* keep_latest of each podcast is a free input (variable keep).
Config ==
    [ playlists |-> << [name |-> "m", url |-> "um"] >>,
      podcasts  |-> <<
          [ name |-> "s1",
            podcasts |-> << [name |-> <<"p">>, url |-> "u1"],
                            [name |-> <<"p", "!">>, url |-> "u2"] >> ],
          [ name |-> "s2", podcasts |-> << >> ] >> ]

NPlaylists == Len(Config.playlists)
NSets == Len(Config.podcasts)
NPodcasts(s) == Len(Config.podcasts[s].podcasts)
PodcastOf(s, p) == Config.podcasts[s].podcasts[p]
PodcastIds == UNION { { <<s, p>> : p \in 1..NPodcasts(s) } : s \in 1..NSets }
Urls == { PodcastOf(id[1], id[2]).url : id \in PodcastIds }

\* Podcast.keep_latest of every podcast.
RECURSIVE Sum(_, _)
Sum(f, ids) == IF ids = {} THEN 0
               ELSE LET id == CHOOSE x \in ids : TRUE IN f[id] + Sum(f, ids \ {id})
Keeps == { k \in [PodcastIds -> 0..MaxEpisodes] : Sum(k, PodcastIds) <= MaxEpisodes }

\* A file's modification time: <<whole seconds, sub-second part is non-zero>>.
\* The wall clock of a write is later than every publication time of the feeds.
Now == <<MaxTime + 1, 1>>
\* A directory entry: whether it is a regular file, its mtime, and whether it
\* holds the whole output of a transcode (ffmpeg exited with status 0) or a
\* part of one.  Before the first run the directory of the first podcast set
\* is empty, or holds one file of an earlier sync, or a subdirectory.
EmptyDir == << >>
InitDirs ==
    { EmptyDir } \cup
    { podcast_file_name(<<"p">>, <<"a">>) :>
          [is_file |-> f, mtime |-> <<1, 1>>, complete |-> f] : f \in BOOLEAN }

\* tempfile::TempDir: whether the directory exists.
NoDir == FALSE
NewDir == TRUE
\* The item in the pipeline of lines 189-215: file_name, pub_time, how curl and
\* ffmpeg ended, whether temp_file exists and whether ffmpeg wrote to path.
NoCur == [file_name |-> <<>>, pub_time |-> 0, curl |-> "none", ffmpeg |-> "none",
          temp_file |-> FALSE, wrote |-> FALSE]

VARIABLES
    pc,              \* where the process is
    pl,              \* main.rs:234, index of the playlist being synced
    si,              \* main.rs:237, index of the podcast set being synced
    pi,              \* main.rs:137, index of the podcast within the set
    ei,              \* main.rs:150, index of the item within the channel
    keep,            \* Podcast.keep_latest of every podcast (configuration)
    web,             \* url -> the feed document the server holds
    fs,              \* set index -> the output subdirectory: name -> entry
    existing_files,  \* main.rs:104
    expected_files,  \* main.rs:133
    tempdir,         \* main.rs:135
    cur,             \* the item in the pipeline of lines 189-215
    downloads,       \* curl processes launched in this run
    transcodes,      \* ffmpeg processes launched in this run
    attempted,       \* the podcast sets sync_podcasts was called for in this run
    failed,          \* curl or ffmpeg has exited with another status than 0 in this run
    response,        \* main.rs:139-146, the status of the Response being read
    prev,            \* how the previous run ended
    args,            \* the arguments of a call of fat32_sanitize or podcast_file_name
    results          \* what the calls made with them have returned, in order

mainvars == <<pc, pl, si, pi, ei, keep, web, fs, existing_files,
              expected_files, tempdir, cur, downloads, transcodes, attempted,
              failed, response, prev>>
fnvars == <<args, results>>
vars == <<mainvars, fnvars>>

Terminal == {"exit_ok", "exit_err", "killed"}

Init ==
    /\ pc = "start"
    /\ pl = 0 /\ si = 0 /\ pi = 0 /\ ei = 0
    /\ keep \in Keeps
    /\ web = [u \in Urls |-> None]
    /\ fs \in { [s \in 1..NSets |-> IF s = 1 THEN d ELSE EmptyDir] : d \in InitDirs }
    /\ existing_files = << >>
    /\ expected_files = {}
    /\ tempdir = NoDir
    /\ cur = NoCur
    /\ downloads = 0 /\ transcodes = 0
    /\ attempted = {}
    /\ failed = FALSE
    /\ response = "none"
    /\ prev = "none"
    /\ args = << >> /\ results = << >>

\* ----------------------------------------------------------- sync_podcasts
\* main.rs:104-127: the regular files of the directory, with their mtime in
\* whole seconds (DateTime::from_timestamp(unix_seconds, 0)).
Scan(dir) ==
    [ n \in { m \in DOMAIN dir : dir[m].is_file } |-> dir[n].mtime[1] ]

\* Take with the window one item too long.
TakeOneMore(items, n) == SubSeq(items, 1, Min(n + 1, Len(items)))

\* main.rs:150, Iterator::take.
Take(items, n) == SubSeq(items, 1, Min(n, Len(items)))

\* Redownload looking only at the presence of the file.
RedownloadIfMissing(existing, file_name, pub_time) ==
    file_name \notin DOMAIN existing

\* Redownload that takes every item as in need of a download.
RedownloadAlways(existing, file_name, pub_time) == TRUE

\* Redownload that passes over a name this run has already produced.
RedownloadOnce(existing, file_name, pub_time) ==
    /\ file_name \notin expected_files
    /\ IF file_name \in DOMAIN existing
       THEN existing[file_name] # pub_time
       ELSE TRUE

\* main.rs:170-186
Redownload(existing, file_name, pub_time) ==
    IF file_name \in DOMAIN existing
    THEN existing[file_name] # pub_time
    ELSE TRUE

\* Validate without the check of the enclosure.
ValidateNoEnclosure(item) ==
    IF item.title = None THEN "no title"
    ELSE IF item.pub_date = None THEN "no pub date"
    ELSE IF ~Unwrap(item.pub_date).rfc2822 THEN "bad pub date"
    ELSE "ok"

\* The mtime left as the transcoder's write set it.
StampTimeNow(pub_time) == Now

\* main.rs:213, FileTime::from_unix_time(pub_time.timestamp(), 0)
StampTime(pub_time) == <<pub_time, 0>>

\* main.rs:151-168: the first field whose `?` returns an error, or "ok".
Validate(item) ==
    IF item.title = None THEN "no title"
    ELSE IF item.pub_date = None THEN "no pub date"
    ELSE IF ~Unwrap(item.pub_date).rfc2822 THEN "bad pub date"
    ELSE IF item.enclosure = None THEN "no enclosure"
    ELSE "ok"

\* main.rs:149, channel.items of the podcast being synced.
Channel == Unwrap(web[PodcastOf(si, pi).url])

\* LoopTo that passes over an item when the window holds another one.
LoopToSkip(s, p, i, ch) ==
    IF i <= Len(Take(ch, keep[<<s, p>>]))
    THEN [pc |-> "item", si |-> s, pi |-> p,
          ei |-> Min(i + 1, Len(Take(ch, keep[<<s, p>>])))]
    ELSE IF p < NPodcasts(s)
    THEN [pc |-> "fetch", si |-> s, pi |-> p + 1, ei |-> 0]
    ELSE IF s < NSets
    THEN [pc |-> "set", si |-> s + 1, pi |-> 0, ei |-> 0]
    ELSE [pc |-> "exit_ok", si |-> s, pi |-> p, ei |-> 0]

\* Where control goes when the loop of line 150 asks for item i of channel ch
\* in podcast p of set s: the item (line 151), the next podcast (line 137),
\* the next podcast set (line 219, then main.rs:237) or the end of main (240).
LoopTo(s, p, i, ch) ==
    IF i <= Len(Take(ch, keep[<<s, p>>]))
    THEN [pc |-> "item", si |-> s, pi |-> p, ei |-> i]
    ELSE IF p < NPodcasts(s)
    THEN [pc |-> "fetch", si |-> s, pi |-> p + 1, ei |-> 0]
    ELSE IF s < NSets
    THEN [pc |-> "set", si |-> s + 1, pi |-> 0, ei |-> 0]
    ELSE [pc |-> "exit_ok", si |-> s, pi |-> p, ei |-> 0]

\* The loop moves on to item i; sync_podcasts returns Ok(()) when the loops
\* end, which drops tempdir.
Continue(i, ch, dir) ==
    LET to == LoopTo(si, pi, i, ch) IN
    /\ pc' = to.pc /\ si' = to.si /\ pi' = to.pi /\ ei' = to.ei
    /\ tempdir' = IF to.pc \in {"item", "fetch"} THEN dir ELSE NoDir

\* Fail with a temp dir that is not removed when sync_podcasts returns.
FailLeak ==
    /\ pc' = "exit_err"
    /\ existing_files' = << >>
    /\ expected_files' = {}
    /\ cur' = NoCur
    /\ UNCHANGED <<si, pi, ei, tempdir>>

\* A `?` of sync_podcasts returns the error; tempdir is dropped with the
\* other locals of sync_podcasts; the `?` of main.rs:238 returns the error
\* from main.  The place of the failure is kept.
Fail ==
    /\ pc' = "exit_err"
    /\ tempdir' = NoDir
    /\ existing_files' = << >>
    /\ expected_files' = {}
    /\ cur' = NoCur
    /\ UNCHANGED <<si, pi, ei>>

\* main.rs:224-233
LoadConfig ==
    /\ pc = "start"
    /\ \E ok \in BOOLEAN :
         IF ok
         THEN /\ pc' = IF NPlaylists > 0 THEN "playlist" ELSE "set"
              /\ pl' = IF NPlaylists > 0 THEN 1 ELSE 0
              /\ si' = IF NPlaylists > 0 THEN 0 ELSE 1
         ELSE /\ pc' = "exit_err"     \* expect() panics
              /\ UNCHANGED <<pl, si>>
    /\ UNCHANGED <<pi, ei, keep, web, fs, existing_files,
                   expected_files, tempdir, cur, downloads, transcodes,
                   attempted, failed, response, prev>>
    /\ UNCHANGED fnvars

\* main.rs:234-236 with sync_playlist, lines 58-79
SyncPlaylist ==
    /\ pc = "playlist"
    /\ \E outcome \in {"dir_fail", "launch_fail", "nonzero", "zero"} :
         IF outcome = "zero"
         THEN IF pl < NPlaylists
              THEN pl' = pl + 1 /\ UNCHANGED <<pc, si>>
              ELSE IF NSets > 0
              THEN pc' = "set" /\ si' = 1 /\ UNCHANGED pl
              ELSE pc' = "exit_ok" /\ UNCHANGED <<pl, si>>
         ELSE pc' = "exit_err" /\ UNCHANGED <<pl, si>>
    /\ UNCHANGED <<pi, ei, keep, web, fs, existing_files,
                   expected_files, tempdir, cur, downloads, transcodes,
                   attempted, failed, response, prev>>
    /\ UNCHANGED fnvars

\* main.rs:99-135: create the directory, scan it, create the temp dir.
SetBegin ==
    /\ pc = "set"
    /\ attempted' = attempted \cup {si}
    /\ \E outcome \in {"dir_fail", "read_fail", "tempdir_fail", "ok"} :
         IF outcome = "ok"
         THEN /\ existing_files' = Scan(fs[si])
              /\ expected_files' = {}
              /\ UNCHANGED cur
              /\ IF NPodcasts(si) > 0
                 THEN pc' = "fetch" /\ pi' = 1 /\ tempdir' = NewDir /\ UNCHANGED <<si, ei>>
                 ELSE /\ pc' = IF si < NSets THEN "set" ELSE "exit_ok"
                      /\ si' = IF si < NSets THEN si + 1 ELSE si
                      /\ tempdir' = NoDir
                      /\ UNCHANGED <<pi, ei>>
         ELSE Fail
    /\ UNCHANGED <<pl, keep, web, fs, downloads, transcodes, failed, response, prev>>
    /\ UNCHANGED fnvars

\* main.rs:138-146: reqwest::get fails when no response arrives; a response
\* of any status is Ok.
Fetch ==
    /\ pc = "fetch"
    /\ \E outcome \in {"get_err", "ok"} :
         IF outcome = "ok"
         THEN /\ pc' = "bytes"
              /\ response' \in {"success", "non_success"}
              /\ UNCHANGED <<si, pi, ei, tempdir, existing_files, expected_files, cur>>
         ELSE Fail /\ UNCHANGED response
    /\ UNCHANGED <<pl, keep, web, fs, downloads, transcodes, attempted, failed, prev>>
    /\ UNCHANGED fnvars

\* main.rs:147-150: bytes, Channel::read_from, then the first turn of the loop
\* of line 150.
ReadChannel ==
    /\ pc = "bytes"
    /\ response' = "none"
    /\ \E outcome \in {"bytes_err", "parse_err", "ok"} :
         IF outcome = "ok"
         THEN \E n \in 0..MaxFeedLen :
                LET url == PodcastOf(si, pi).url
                    doc == IF web[url] = None THEN UnreadFeed(n) ELSE Unwrap(web[url])
                IN  /\ Len(doc) = n
                    /\ web' = [web EXCEPT ![url] = Some(doc)]
                    /\ Continue(1, doc, tempdir)
                    /\ UNCHANGED <<existing_files, expected_files, cur>>
         ELSE Fail /\ UNCHANGED web
    /\ UNCHANGED <<pl, keep, fs, downloads, transcodes, attempted, failed, prev>>
    /\ UNCHANGED fnvars

\* main.rs:151-191, and line 216 when the file is up to date.
Item ==
    /\ pc = "item"
    /\ \E item \in Items :
       /\ Channel[ei] \in {None, Some(item)}
       /\ web' = [web EXCEPT ![PodcastOf(si, pi).url] =
                                Some([Channel EXCEPT ![ei] = Some(item)])]
       /\ IF Validate(item) # "ok"
          THEN Fail
          ELSE LET title == Unwrap(item.title)
                   pub_time == Unwrap(item.pub_date).timestamp
                   file_name == podcast_file_name(PodcastOf(si, pi).name, title)
                   redownload == Redownload(existing_files, file_name, pub_time)
               IN  IF redownload
                      THEN /\ pc' = "curl"
                           /\ cur' = [NoCur EXCEPT !.file_name = file_name,
                                                   !.pub_time = pub_time]
                           /\ UNCHANGED <<si, pi, ei, tempdir, existing_files,
                                          expected_files>>
                      ELSE /\ expected_files' = expected_files \cup {file_name}
                           /\ cur' = NoCur
                           /\ Continue(ei + 1, Channel, tempdir)
                           /\ UNCHANGED existing_files
    /\ UNCHANGED <<pl, keep, fs, downloads, transcodes, attempted, failed, response, prev>>
    /\ UNCHANGED fnvars

\* main.rs:192-200: only a failure to launch curl is an error.  curl exits
\* with status 0 after writing temp_file; with another status it has written
\* nothing or a part of it.
Curl ==
    /\ pc = "curl"
    /\ \E outcome \in {"launch_fail", "nonzero", "zero"}, wrote \in BOOLEAN :
         /\ outcome = "zero" => wrote
         /\ outcome = "launch_fail" => ~wrote
         /\ IF outcome = "launch_fail"
            THEN Fail /\ UNCHANGED <<downloads, failed>>
            ELSE /\ pc' = "ffmpeg"
                 /\ cur' = [cur EXCEPT !.curl = outcome, !.temp_file = wrote]
                 /\ downloads' = downloads + 1
                 /\ failed' = (failed \/ outcome = "nonzero")
                 /\ UNCHANGED <<si, pi, ei, tempdir, existing_files, expected_files>>
    /\ UNCHANGED <<pl, keep, web, fs, transcodes, attempted, response, prev>>
    /\ UNCHANGED fnvars

\* main.rs:201-212: only a failure to launch ffmpeg is an error.  ffmpeg exits
\* with status 0 after writing the whole output, which needs its input; with
\* another status it has written nothing or a part of the output.  It writes
\* nothing without an input file, and cannot write to a path that is a
\* directory.
Ffmpeg ==
    /\ pc = "ffmpeg"
    /\ \E outcome \in {"launch_fail", "nonzero", "zero"}, wrote \in BOOLEAN :
         /\ outcome = "zero" => wrote
         /\ wrote => cur.temp_file
         /\ wrote => (cur.file_name \in DOMAIN fs[si] => fs[si][cur.file_name].is_file)
         /\ outcome = "launch_fail" => ~wrote
         /\ IF outcome = "launch_fail"
            THEN Fail /\ UNCHANGED <<transcodes, fs, failed>>
            ELSE /\ pc' = "stamp"
                 /\ cur' = [cur EXCEPT !.ffmpeg = outcome, !.wrote = wrote]
                 /\ transcodes' = transcodes + 1
                 /\ failed' = (failed \/ outcome = "nonzero")
                 /\ fs' = IF wrote
                          THEN [fs EXCEPT ![si] =
                                 (cur.file_name :>
                                    [is_file |-> TRUE, mtime |-> Now,
                                     complete |-> outcome = "zero"]) @@ @]
                          ELSE fs
                 /\ UNCHANGED <<si, pi, ei, tempdir, existing_files, expected_files>>
    /\ UNCHANGED <<pl, keep, web, downloads, attempted, response, prev>>
    /\ UNCHANGED fnvars

\* main.rs:213-216: set_file_mtime fails when the path does not exist, and may
\* fail for another reason; then line 216 and the next turn of the loop.
Stamp ==
    /\ pc = "stamp"
    /\ \E ok \in BOOLEAN :
         /\ ok => cur.file_name \in DOMAIN fs[si]
         /\ IF ok
            THEN /\ fs' = [fs EXCEPT ![si][cur.file_name].mtime = StampTime(cur.pub_time)]
                 /\ expected_files' = expected_files \cup {cur.file_name}
                 /\ cur' = NoCur
                 /\ Continue(ei + 1, Channel, tempdir)
                 /\ UNCHANGED existing_files
            ELSE Fail /\ UNCHANGED fs
    /\ UNCHANGED <<pl, keep, web, downloads, transcodes, attempted, failed, response, prev>>
    /\ UNCHANGED fnvars

\* The process is terminated from outside: nothing of it runs any more, and
\* what it held in memory is gone, the counts of what it has launched too.
\* Its files stay, the temp dir too.
Kill ==
    /\ pc \notin Terminal
    /\ pc' = "killed"
    /\ pl' = 0 /\ si' = 0 /\ pi' = 0 /\ ei' = 0
    /\ existing_files' = << >>
    /\ expected_files' = {}
    /\ cur' = NoCur
    /\ downloads' = 0 /\ transcodes' = 0
    /\ attempted' = {}
    /\ failed' = FALSE
    /\ response' = "none"
    /\ UNCHANGED <<keep, web, fs, tempdir, prev>>
    /\ UNCHANGED fnvars

\* The process is started again with the same configuration, against the
\* same servers and the directory as the previous run left it, after a run
\* that finished without error or was terminated.
StartRun ==
    /\ pc \in {"exit_ok", "killed"}
    /\ prev' = pc
    /\ pc' = "start"
    /\ pl' = 0 /\ si' = 0 /\ pi' = 0 /\ ei' = 0
    /\ existing_files' = << >>
    /\ expected_files' = {}
    /\ tempdir' = NoDir
    /\ cur' = NoCur
    /\ downloads' = 0 /\ transcodes' = 0
    /\ attempted' = {}
    /\ failed' = FALSE
    /\ response' = "none"
    /\ UNCHANGED <<keep, web, fs>>
    /\ UNCHANGED fnvars

Next ==
    \/ LoadConfig
    \/ SyncPlaylist
    \/ SetBegin
    \/ Fetch
    \/ ReadChannel
    \/ Item
    \/ Curl
    \/ Ffmpeg
    \/ Stamp
    \/ Kill
    \/ StartRun

Spec == Init /\ [][Next]_vars

\* ------------------------------------------- the file-name functions alone
\* The two pure functions of main.rs:81-96 are called on their own, on every
\* string of a small alphabet and on a few longer ones.
MaxLen == 2
\* One character of each kind the match arm of main.rs:83 tells apart, and
\* two it drops.
Alphabet == {"a", "Z", "7", " ", ".", "?"}
StringsUpTo(n) == UNION { [1..k -> Alphabet] : k \in 0..n }
LongStrings == { <<"S","h","o","w",":"," ","P","a","r","t"," ","#","1","?","!">>,
                 <<"-", "_", "/", "-">>,
                 <<"/", ":", "#", "!">> }
Strings == StringsUpTo(MaxLen) \cup LongStrings
\* The rest of the program does not run while the functions are called.
InitFn ==
    /\ pc = "start"
    /\ pl = 0 /\ si = 0 /\ pi = 0 /\ ei = 0
    /\ keep = [id \in PodcastIds |-> 0]
    /\ web = [u \in Urls |-> None]
    /\ fs = [s \in 1..NSets |-> EmptyDir]
    /\ existing_files = << >>
    /\ expected_files = {}
    /\ tempdir = NoDir
    /\ cur = NoCur
    /\ downloads = 0 /\ transcodes = 0
    /\ attempted = {}
    /\ failed = FALSE
    /\ response = "none"
    /\ prev = "none"
    /\ args \in { <<s>> : s \in Strings } \cup (Strings \X Strings)
    /\ results = << >>

\* main.rs:81-88 called on the argument, then on what it returned.
CallSanitize ==
    /\ Len(args) = 1
    /\ Len(results) < 2
    /\ results' = Append(results,
                     fat32_sanitize(IF results = << >> THEN args[1]
                                    ELSE results[Len(results)]))
    /\ UNCHANGED <<mainvars, args>>

\* main.rs:90-96 called on a podcast name and a title.
CallFileName ==
    /\ Len(args) = 2
    /\ results = << >>
    /\ results' = <<podcast_file_name(args[1], args[2])>>
    /\ UNCHANGED <<mainvars, args>>

NextFn ==
    \/ CallSanitize
    \/ CallFileName

SpecFn == InitFn /\ [][NextFn]_vars

\* ------------------------------------------------------------ the claims
\* The podcasts of set s.
PodcastsOf(s) == { id \in PodcastIds : id[1] = s }
\* channel.items of podcast id, as far as the server has answered.
FeedOf(id) == IF web[PodcastOf(id[1], id[2]).url] = None THEN << >>
              ELSE Unwrap(web[PodcastOf(id[1], id[2]).url])
\* The positions of the keep_latest window of podcast id.
WindowOf(id) == { i \in 1..Len(FeedOf(id)) : i <= keep[id] }
\* An item that has a title, a publication date that parses, and an enclosure.
HasAllFields(o) ==
    /\ o # None
    /\ Unwrap(o).title # None
    /\ Unwrap(o).pub_date # None
    /\ Unwrap(Unwrap(o).pub_date).rfc2822
    /\ Unwrap(o).enclosure # None
NameOf(id, i) == podcast_file_name(PodcastOf(id[1], id[2]).name, Unwrap(Unwrap(FeedOf(id)[i]).title))
PubOf(id, i) == Unwrap(Unwrap(FeedOf(id)[i]).pub_date).timestamp
\* The episodes of the windows: podcast and position, every field present.
Episodes == { e \in PodcastIds \X (1..MaxFeedLen) :
                e[2] \in WindowOf(e[1]) /\ HasAllFields(FeedOf(e[1])[e[2]]) }
\* No two episodes of the windows of one set have the same canonical file name
\* and different publication seconds.
NoClash ==
    \A e \in Episodes, f \in Episodes :
        (e[1][1] = f[1][1] /\ NameOf(e[1], e[2]) = NameOf(f[1], f[2]))
            => PubOf(e[1], e[2]) = PubOf(f[1], f[2])
\* No canonical path of an episode of the windows is taken by a directory.
NoDirAtPath ==
    \A e \in Episodes :
        NameOf(e[1], e[2]) \in DOMAIN fs[e[1][1]]
            => fs[e[1][1]][NameOf(e[1], e[2])].is_file
\* Every window of every podcast has been read to its end and holds episodes.
AllRead ==
    \A id \in PodcastIds :
        /\ web[PodcastOf(id[1], id[2]).url] # None
        /\ \A i \in WindowOf(id) : HasAllFields(FeedOf(id)[i])

\* C1 (as amended).  An episode whose file the scan found with the mtime
\* second of its publication is never downloaded or transcoded; and a run that
\* follows a run that finished without error launches no download and no
\* transcode, provided no two episodes of the windows of a set share a file
\* name with different publication seconds and no canonical path of theirs is
\* a directory.
C1_Idempotent ==
    /\ pc \in {"curl", "ffmpeg", "stamp"} =>
          ~(/\ cur.file_name \in DOMAIN existing_files
            /\ existing_files[cur.file_name] = cur.pub_time)
    /\ (prev = "exit_ok" /\ downloads + transcodes > 0) => ~NoClash \/ ~NoDirAtPath

\* C1 as stated, over directories that hold regular files only: a run that
\* follows a run that finished without error launches no download.
C1_Original == (prev = "exit_ok" /\ NoDirAtPath) => downloads = 0

\* C1, reached: the second of two runs that finished without error, over
\* windows that hold an episode the first run downloaded and stamped.
C1_Witness ==
    /\ prev = "exit_ok" /\ pc = "exit_ok" /\ NoClash /\ NoDirAtPath
    /\ downloads = 0
    /\ Episodes # {}
    /\ \E e \in Episodes :
          /\ NameOf(e[1], e[2]) \in DOMAIN fs[e[1][1]]
          /\ fs[e[1][1]][NameOf(e[1], e[2])].mtime = <<PubOf(e[1], e[2]), 0>>

\* C2.  When line 151 reads an item of the window that has all its fields, the
\* pipeline is started (control goes to curl) exactly when its canonical file
\* name is not in existing_files or is there with another second than the
\* publication time; when it is there with the same second, nothing is
\* launched and the directory is left as it is.
C2_Classification ==
    [][ (pc = "item" /\ pc' # "killed"
            /\ HasAllFields(Unwrap(web'[PodcastOf(si, pi).url])[ei])) =>
          LET item == Unwrap(Unwrap(web'[PodcastOf(si, pi).url])[ei])
              name == podcast_file_name(PodcastOf(si, pi).name, Unwrap(item.title))
              pub  == Unwrap(item.pub_date).timestamp
              needs == \/ name \notin DOMAIN existing_files
                       \/ existing_files[name] # pub
          IN  /\ (pc' = "curl") <=> needs
              /\ pc' = "curl" => cur'.file_name = name /\ cur'.pub_time = pub
              /\ ~needs => /\ fs' = fs
                            /\ downloads' = downloads
                            /\ transcodes' = transcodes
                            /\ pc' \notin {"curl", "ffmpeg", "stamp", "exit_err"}
      ]_vars

\* C2, reached: the first item of a window was found up to date and nothing
\* was launched for it, the second one is stale and its download is starting.
C2_Witness ==
    /\ pc = "curl" /\ ei = 2 /\ downloads = 0
    /\ expected_files # {}
    /\ cur.file_name \in DOMAIN existing_files
    /\ existing_files[cur.file_name] # cur.pub_time

\* The path of the episode in the pipeline is free or a regular file.
PathIsFile == cur.file_name \in DOMAIN fs[si] => fs[si][cur.file_name].is_file

\* C3 as stated, for the pipelines that end without an error and whose path
\* is no directory: when the pipeline of an episode is through (line 215), one
\* download and one transcode were launched for it, and the file at its path
\* exists, was written by this pipeline, and has the publication second as
\* its mtime.
C3_Claim ==
    [][ (pc = "stamp" /\ pc' \notin {"exit_err", "killed"} /\ PathIsFile) =>
          /\ cur.curl # "none" /\ cur.ffmpeg # "none"
          /\ cur.file_name \in DOMAIN fs'[si]
          /\ fs'[si][cur.file_name].mtime[1] = cur.pub_time
          /\ cur.wrote
      ]_vars

\* The file name n of set s is the canonical name of an episode of a window.
InWindow(s, n) ==
    \E p \in 1..NPodcasts(s) :
        \E i \in 1..Min(keep[<<s, p>>], Len(FeedOf(<<s, p>>))) :
            /\ HasAllFields(FeedOf(<<s, p>>)[i])
            /\ NameOf(<<s, p>>, i) = n

\* C4.  Only the first keep_latest items of a feed are touched: the loop index
\* stays inside the window, no item beyond it is ever read, the expected
\* files are files of window episodes, with keep_latest = 0 everywhere nothing
\* is launched; and a step that changes a directory changes only the entry
\* at the path of the window episode the loop is at.
C4_Window ==
    /\ [](/\ pc \in {"item", "curl", "ffmpeg", "stamp"} =>
               ei \in 1..keep[<<si, pi>>] /\ ei <= Len(Channel)
          /\ \A id \in PodcastIds : \A i \in (keep[id] + 1)..Len(FeedOf(id)) :
               FeedOf(id)[i] = None
          /\ pc \in {"fetch", "bytes", "item", "curl", "ffmpeg", "stamp"} =>
               \A n \in expected_files : InWindow(si, n)
          /\ (\A id \in PodcastIds : keep[id] = 0) =>
               downloads = 0 /\ transcodes = 0 /\ expected_files = {})
    /\ [][ fs' # fs =>
             /\ pc \in {"ffmpeg", "stamp"}
             /\ ei \in 1..keep[<<si, pi>>]
             /\ HasAllFields(Channel[ei])
             /\ cur.file_name = NameOf(<<si, pi>>, ei)
             /\ \A s \in 1..NSets :
                  \A n \in DOMAIN fs[s] \cup DOMAIN fs'[s] :
                      (s # si \/ n # cur.file_name) =>
                          /\ n \in DOMAIN fs[s] /\ n \in DOMAIN fs'[s]
                          /\ fs'[s][n] = fs[s][n]
       ]_vars

\* C4, reached: a podcast with a feed longer than its window is done, its
\* window episode downloaded, and the next podcast is being fetched.
C4_Witness ==
    /\ pc = "fetch" /\ pi = 2
    /\ keep[<<1, 1>>] = 1
    /\ Len(FeedOf(<<1, 1>>)) > 1
    /\ downloads = 1 /\ transcodes = 1
    /\ expected_files # {}

\* C5 as stated: when ffmpeg has exited with a status other than 0, the
\* episode ends in an error and the mtime of its file is left alone.
C5_Claim ==
    [][ (pc = "stamp" /\ cur.ffmpeg = "nonzero" /\ pc' # "killed" /\ PathIsFile) =>
          pc' = "exit_err" /\ fs' = fs
      ]_vars

\* C6 as stated: after curl has exited with a status other than 0, ffmpeg is
\* not run for the episode.
C6_Claim == cur.curl = "nonzero" => cur.ffmpeg = "none"

\* C7 as stated, at the end of main: once the configuration is loaded, the
\* process does not exit before sync_podcasts was called for every set.
C7_Claim ==
    (pc \in {"exit_ok", "exit_err"} /\ pl >= 1) => attempted = 1..NSets

\* C8 as stated: when line 155 finds no publication date in an item of a
\* podcast that is not the last of its set, the next podcast is fetched.
C8_Claim ==
    [][ (/\ pc = "item" /\ pc' # "killed" /\ pi < NPodcasts(si)
         /\ Unwrap(web'[PodcastOf(si, pi).url])[ei] # None
         /\ Unwrap(Unwrap(web'[PodcastOf(si, pi).url])[ei]).title # None
         /\ Unwrap(Unwrap(web'[PodcastOf(si, pi).url])[ei]).pub_date = None) =>
          pc' = "fetch" /\ si' = si /\ pi' = pi + 1
      ]_vars

\* Every window of the podcasts before podcast p of set s holds only items
\* with all their fields.
ValidBefore(s, p) ==
    \A id \in PodcastIds :
        (id[1] < s \/ (id[1] = s /\ id[2] < p)) =>
            /\ web[PodcastOf(id[1], id[2]).url] # None
            /\ \A i \in WindowOf(id) : HasAllFields(FeedOf(id)[i])

\* C9.  The loop never gets past an item of the window that lacks a title, a
\* publication date that parses or an enclosure: the item in the pipeline and
\* all items before it have all their fields, so have all the windows of the
\* podcasts already done, and a run that ends without error has seen only
\* such items.  With an item that lacks a field the run can only end in error.
C9_Validation ==
    /\ pc \in {"curl", "ffmpeg", "stamp"} =>
          \A j \in 1..ei : HasAllFields(Channel[j])
    /\ pc = "item" => \A j \in 1..(ei - 1) : HasAllFields(Channel[j])
    /\ pc \in {"fetch", "bytes", "item", "curl", "ffmpeg", "stamp"} => ValidBefore(si, pi)
    /\ pc = "set" => ValidBefore(si, 1)
    /\ pc = "exit_ok" => AllRead

\* C9, reached: the run has ended in error at an item without enclosure whose
\* file is in the directory with the second of its publication date, and
\* nothing was launched.
C9_Witness ==
    /\ pc = "exit_err" /\ si = 1 /\ pi = 1 /\ ei = 1
    /\ web["u1"] # None
    /\ Len(FeedOf(<<1, 1>>)) >= 1
    /\ FeedOf(<<1, 1>>)[1] # None
    /\ Unwrap(FeedOf(<<1, 1>>)[1]).enclosure = None
    /\ podcast_file_name(<<"p">>, <<"a">>) \in DOMAIN fs[1]
    /\ fs[1][podcast_file_name(<<"p">>, <<"a">>)].is_file
    /\ fs[1][podcast_file_name(<<"p">>, <<"a">>)].mtime[1] = 1
    /\ downloads = 0 /\ transcodes = 0

\* C10 as stated, over windows without two episodes of one file name and over
\* directories of regular files: when a run that follows a terminated run
\* ends without error, every episode of the windows has its file, whole, with
\* the publication second as mtime.
C10_Claim ==
    (prev = "killed" /\ pc = "exit_ok" /\ NoClash /\ NoDirAtPath) =>
        \A e \in Episodes :
            /\ NameOf(e[1], e[2]) \in DOMAIN fs[e[1][1]]
            /\ fs[e[1][1]][NameOf(e[1], e[2])].complete
            /\ fs[e[1][1]][NameOf(e[1], e[2])].mtime[1] = PubOf(e[1], e[2])

\* C11 as stated: when a step ends the processing of an episode of the window,
\* be it the classification that finds the file up to date, or curl, ffmpeg
\* or set_file_mtime, succeeding or failing, the canonical file name of the
\* episode is in expected_files.
C11_Claim ==
    [][ pc' # "killed" =>
          /\ (/\ pc = "item" /\ pc' # "curl"
              /\ HasAllFields(Unwrap(web'[PodcastOf(si, pi).url])[ei])) =>
                 podcast_file_name(PodcastOf(si, pi).name,
                     Unwrap(Unwrap(Unwrap(web'[PodcastOf(si, pi).url])[ei]).title))
                   \in expected_files'
          /\ (pc \in {"curl", "ffmpeg", "stamp"} /\ pc' \notin {"ffmpeg", "stamp"}) =>
                 cur.file_name \in expected_files'
      ]_vars

\* C12.  The temp dir of line 135 exists from its creation to the return of
\* sync_podcasts and not after it: it is there while the podcasts of a set
\* are synced, and it is gone between the sets and when main has returned,
\* with or without an error.
C12_TempDir ==
    /\ pc \in {"fetch", "bytes", "item", "curl", "ffmpeg", "stamp"} => tempdir = NewDir
    /\ pc \in {"start", "playlist", "set", "exit_ok", "exit_err"} => tempdir = NoDir

\* C12, reached: set_file_mtime has failed for the first episode, after curl
\* and ffmpeg ran, and the run has ended in error.
C12_Witness ==
    /\ pc = "exit_err" /\ si = 1 /\ pi = 1 /\ ei = 1
    /\ downloads = 1 /\ transcodes = 1
    /\ tempdir = NoDir

\* C13 as stated, for the download and the transcode: main returns Ok, and
\* the process ends with status 0, only if neither curl nor ffmpeg has
\* exited with another status than 0 in the run.
C13_Claim == pc = "exit_ok" => ~failed

\* The sets of file names that sync_podcasts holds when its loops have ended
\* (line 219): the names of existing_files and expected_files.  It returns
\* Ok(()) and holds no other.
NameSets == { DOMAIN existing_files, expected_files }

\* C14 as stated: when the loop over the podcasts of a set has ended, the
\* names the scan found without the expected files are one of the sets of
\* file names that sync_podcasts has computed.
C14_Claim ==
    [][ (pc \in {"bytes", "item", "stamp"} /\ pc' \in {"set", "exit_ok"}) =>
          (DOMAIN existing_files' \ expected_files') \in NameSets'
      ]_vars

\* C15 as stated: when the response to the request for a feed has another
\* status than success, the retrieval ends in an error: the body is not
\* parsed into a channel whose items the loop goes through.
C15_Claim ==
    [][ (pc = "bytes" /\ response = "non_success" /\ pc' # "killed") =>
          pc' = "exit_err"
      ]_vars

\* C16: fat32_sanitize returns a string for every string it is given, the
\* empty one included, and calling it on its own result changes nothing.
C16_Sanitizer ==
    /\ Len(results) >= 1 /\ Len(args) = 1 =>
          /\ DOMAIN results[1] = 1..Len(results[1])
          /\ Len(results[1]) <= Len(args[1])
    /\ Len(results) = 2 => results[2] = results[1]
\* The function has been called twice on a string from which it dropped a
\* character.
C16_Witness ==
    /\ Len(results) = 2
    /\ args = << <<"?", "a">> >>
    /\ results[1] = <<"a">>

\* The characters a sanitized name may hold: ASCII letters, digits, space,
\* hyphen, underscore and period.
Allowed == Lower \cup Upper \cup Digits \cup {" ", "-", "_", "."}
\* s without the characters that are not allowed, the others in their order.
RECURSIVE WithoutOthers(_)
WithoutOthers(s) ==
    IF s = << >> THEN << >>
    ELSE IF Head(s) \in Allowed THEN <<Head(s)>> \o WithoutOthers(Tail(s))
    ELSE WithoutOthers(Tail(s))
ShowPart == <<"S","h","o","w",":"," ","P","a","r","t"," ","#","1","?","!">>

\* C17: podcast_file_name(p, t) is sanitize(p), then " - ", then sanitize(t),
\* then ".mp3", where sanitize removes exactly the characters that are not
\* ASCII letters, digits, space, hyphen, underscore or period and keeps the
\* others in their order: "Show: Part #1?!" becomes "Show Part 1", and a
\* name and a title that lose every character give " - .mp3".
C17_FileName ==
    /\ (Len(args) = 2 /\ results # << >>) =>
          /\ results[1] = WithoutOthers(args[1]) \o <<" ", "-", " ">>
                              \o WithoutOthers(args[2]) \o <<".", "m", "p", "3">>
          /\ (\A i \in 1..2 : \A k \in 1..Len(args[i]) : args[i][k] \notin Allowed)
                => results[1] = <<" ", "-", " ", ".", "m", "p", "3">>
    /\ (Len(args) = 1 /\ results # << >>) =>
          /\ results[1] = WithoutOthers(args[1])
          /\ args[1] = ShowPart
                => results[1] = <<"S","h","o","w"," ","P","a","r","t"," ","1">>
\* The name of podcast "a?" and title "?Z" has been computed.
C17_Witness ==
    /\ args = << <<"a", "?">>, <<"?", "Z">> >>
    /\ results = << <<"a", " ", "-", " ", "Z", ".", "m", "p", "3">> >>

\* C18: within a podcast set the podcasts are taken in the order of the
\* configuration, one after the other, and within a podcast the items in the
\* order of the feed, one after the other; an item is validated only when
\* the item before it has been classified as up to date or has been
\* downloaded, transcoded and stamped; a step launches at most one of curl
\* and ffmpeg and writes at most one name of one output subdirectory.
C18_Sequential ==
    [][ (pc \notin Terminal /\ pc' # "killed") =>
          \* podcasts in the order of the configuration
          /\ si' = si => pi' \in {pi, pi + 1}
          /\ (si' = si /\ pi' = pi + 1) => (pc' = "fetch" /\ ei' = 0)
          /\ si' # si => (si' = si + 1 /\ pc' = "set" /\ pi' = 0 /\ ei' = 0)
          \* items in the order of the feed
          /\ (si' = si /\ pi' = pi) => ei' \in {ei, ei + 1}
          /\ (si' = si /\ pi' = pi /\ ei' = ei + 1) =>
                (pc \in {"bytes", "item", "stamp"} /\ pc' = "item")
          \* the pipeline of an item ends before the next item is looked at
          /\ pc = "curl" => (pc' \in {"ffmpeg", "exit_err"} /\ ei' = ei /\ pi' = pi)
          /\ pc = "ffmpeg" => (pc' \in {"stamp", "exit_err"} /\ ei' = ei /\ pi' = pi)
          /\ pc' \in {"ffmpeg", "stamp"} => cur'.file_name = cur.file_name
          /\ pc' = "item" => pc \in {"bytes", "item", "stamp"}
          \* one process at a time, one write at a time
          /\ (downloads' - downloads) + (transcodes' - transcodes) \in {0, 1}
          /\ downloads' # downloads => pc = "curl"
          /\ transcodes' # transcodes => pc = "ffmpeg"
          /\ \A s \in 1..NSets : fs'[s] # fs[s] =>
                /\ s = si
                /\ pc \in {"ffmpeg", "stamp"}
                /\ \A n \in (DOMAIN fs[s] \cup DOMAIN fs'[s]) \ {cur.file_name} :
                      n \in DOMAIN fs[s] /\ n \in DOMAIN fs'[s] /\ fs'[s][n] = fs[s][n]
      ]_vars
\* The first item of the second podcast is being downloaded after the item
\* of the first podcast has been downloaded, transcoded and stamped.
C18_Witness ==
    /\ pc = "curl" /\ si = 1 /\ pi = 2 /\ ei = 1
    /\ downloads = 1 /\ transcodes = 1
    /\ Len(FeedOf(<<1, 1>>)) = 1 /\ keep[<<1, 1>>] = 1

\* C19: existing_files is built when sync_podcasts starts on a podcast set,
\* before the first feed is requested, and does not change while the set is
\* synced; an item of a window whose file name is not in it is classified as
\* missing, also after an earlier item of the same name has been written in
\* this run, and is then downloaded and transcoded to that same name.
C19_Snapshot ==
    [][ /\ existing_files' # existing_files =>
              \/ pc = "set" /\ pc' \in {"fetch", "set", "exit_ok", "exit_err"}
              \/ pc' \in Terminal
              \/ pc \in Terminal
        /\ (pc = "item" /\ pc' \notin {"killed", "exit_err"}) =>
              LET name == podcast_file_name(PodcastOf(si, pi).name,
                              Unwrap(Unwrap(Unwrap(web'[PodcastOf(si, pi).url])[ei]).title))
              IN  name \notin DOMAIN existing_files =>
                    pc' = "curl" /\ cur'.file_name = name
        /\ (pc = "curl" /\ pc' \notin {"killed", "exit_err"}) =>
              pc' = "ffmpeg" /\ downloads' = downloads + 1 /\ cur'.file_name = cur.file_name
        /\ (pc = "ffmpeg" /\ pc' \notin {"killed", "exit_err"}) =>
              /\ pc' = "stamp" /\ transcodes' = transcodes + 1
              /\ \A n \in DOMAIN fs'[si] \ {cur.file_name} :
                    n \in DOMAIN fs[si] /\ fs'[si][n] = fs[si][n]
      ]_vars
\* The items of two podcasts have the same file name, which no file had at
\* the scan: the second is transcoded over the output of the first.
C19_Witness ==
    /\ pc = "stamp" /\ si = 1 /\ pi = 2
    /\ downloads = 2 /\ transcodes = 2
    /\ cur.file_name \in expected_files
    /\ cur.file_name \notin DOMAIN existing_files
    /\ cur.wrote

\* C20: no step of a run takes an entry out of an output subdirectory, and a
\* step that changes an entry changes only the one at the canonical path of
\* the item the loop is at, which is in the keep_latest window of its podcast
\* and which the scan did not see with the mtime of its publication; every
\* other entry is what it was, also in a step that ends the run.
C20_Frame ==
    [][ \A s \in 1..NSets :
          /\ DOMAIN fs[s] \subseteq DOMAIN fs'[s]
          /\ fs'[s] # fs[s] =>
                /\ s = si
                /\ pc \in {"ffmpeg", "stamp"}
                /\ ei \in 1..Min(keep[<<si, pi>>], Len(Channel))
                /\ HasAllFields(Channel[ei])
                /\ cur.file_name = NameOf(<<si, pi>>, ei)
                /\ cur.pub_time = PubOf(<<si, pi>>, ei)
                /\ \/ cur.file_name \notin DOMAIN existing_files
                   \/ existing_files[cur.file_name] # cur.pub_time
                /\ \A n \in DOMAIN fs[s] \ {cur.file_name} : fs'[s][n] = fs[s][n]
                /\ \A n \in DOMAIN fs'[s] \ {cur.file_name} : n \in DOMAIN fs[s]
      ]_vars
\* A run has ended after it wrote the file of one episode; the file that was
\* there before, with a sub-second mtime no stamp leaves, is as it was.
C20_Witness ==
    /\ pc \in {"exit_ok", "exit_err"}
    /\ downloads = 1 /\ transcodes = 1
    /\ podcast_file_name(<<"p">>, <<"b">>) \in DOMAIN fs[1]
    /\ podcast_file_name(<<"p">>, <<"a">>) \in DOMAIN fs[1]
    /\ fs[1][podcast_file_name(<<"p">>, <<"a">>)] =
          [is_file |-> TRUE, mtime |-> <<1, 1>>, complete |-> TRUE]

====
